---- MODULE Spec2Model ----
(***************************************************************************)
(* Model of src/index.js: the /convert batch handler with its adaptive     *)
(* WebP transcoder (optimizeWebP), and the /download-zip/:session archive  *)
(* handler.  Every await of the handlers is one action; the synchronous    *)
(* code that follows an await up to the next await belongs to the action.  *)
(***************************************************************************)
EXTENDS Integers, Sequences, FiniteSets, TLC

(***************************************************************************)
(* Bounds of the model.                                                    *)
(***************************************************************************)
MaxFiles == 2
MaxTime == 1
MaxArchive == 2
MaxBatch == 3
MaxClock == 3

(***************************************************************************)
(* Program constants.                                                      *)
(***************************************************************************)
maxAttempts == 3
MinViableSize == 512
QualityWebP == 50
QualityOther == 70
QualityStep == 20
QualityFloor == 10
QualityFallback == 20

(***************************************************************************)
(* Input domains.  File names are sequences of characters so that          *)
(* path.extname / path.basename are computed, not assumed.                 *)
(***************************************************************************)
NameAJpg == <<"a", ".", "j", "p", "g">>
NameAWebp == <<"a", ".", "w", "e", "b", "p">>
NameBJpg == <<"b", ".", "j", "p", "g">>
\* the uploads a batch is drawn from: (original name, size in bytes)
Uploads == {<<NameAJpg, 1000>>, <<NameAWebp, 300>>, <<NameBJpg, 1000>>}
EncSizes == {400, 600, 1000}
HeaderIds == {"s1"}
NoHeader == ""
Times == 1..MaxTime

DotWebp == <<".", "w", "e", "b", "p">>

\* The declared media type multer reports for an upload of that name.
MimeOf(n) == IF n = NameAWebp THEN "image/webp" ELSE "image/jpeg"

Files ==
    {[originalname |-> u[1], mimetype |-> MimeOf(u[1]), size |-> u[2]] : u \in Uploads}

RECURSIVE SeqsUpTo(_, _)
SeqsUpTo(S, n) ==
    IF n = 0 THEN {<<>>}
    ELSE LET shorter == SeqsUpTo(S, n - 1)
         IN shorter \cup {Append(q, x) : q \in {p \in shorter : Len(p) = n - 1}, x \in S}

Batches == SeqsUpTo(Files, MaxFiles)

(***************************************************************************)
(* Pure helpers of the handlers.                                           *)
(***************************************************************************)
MaxOf(S) == CHOOSE x \in S : \A y \in S : y <= x

\* path.extname: from the last "." to the end; empty when there is no "."
\* or the only "." is the first character.
ExtName(n) ==
    LET dots == {i \in 1..Len(n) : n[i] = "."}
    IN IF dots = {} \/ MaxOf(dots) = 1 THEN <<>>
       ELSE SubSeq(n, MaxOf(dots), Len(n))

\* path.basename(name, ext): the name without the suffix ext.
BaseName(n, ext) ==
    IF ext # <<>> /\ Len(n) > Len(ext)
       /\ SubSeq(n, Len(n) - Len(ext) + 1, Len(n)) = ext
    THEN SubSeq(n, 1, Len(n) - Len(ext))
    ELSE n

OutputFilename(n) == BaseName(n, ExtName(n)) \o DotWebp

GenSessionId(t) == "session_" \o ToString(t)

\* req.headers['x-session-id'] || `session_${Date.now()}`
ResolveSession(hdr, t) == IF hdr # NoHeader THEN hdr ELSE GenSessionId(t)

SessionIds == HeaderIds \cup {GenSessionId(t) : t \in Times}

EmptyUrl == <<>>
DownloadUrl(sid, outName) == <<"/download/", sid, outName>>
ZipUrl(sid) == <<"/download-zip/", sid>>
\* path.join(__dirname, 'public', `${req.params.session}.zip`)
ZipPath(sid) == <<"public/", sid, ".zip">>
ZipPaths == {ZipPath(s) : s \in SessionIds}

(***************************************************************************)
(* State.                                                                  *)
(***************************************************************************)
VARIABLES
    \* the /convert request: req.files, req.headers['x-session-id'], Date.now()
    files, header, now,
    \* position of the /convert handler and its locals
    pc, sessionId, idx, fileSizes, downloadUrls, res,
    \* locals of optimizeWebP for the file being processed
    originalSize, quality, attempts, convertedSize,
    \* file system: public/<session> directories, uploads/<tmp>, public/<session>.zip
    dirs, uploads, zips,
    \* history of the /convert request: files handed to optimizeWebP, errors
    \* thrown per file, unlink(file.path) calls made and those that succeeded,
    \* the qualities encoded so far for the file whose outcome is still open
    hInvoked, hThrown, hUnlinkTried, hUnlinkOk, hEncodes,
    \* the /download-zip requests: position, req.params.session, response,
    \* whether createWriteStream(zipPath) ran, whether unlink(zipPath) was called
    zpc, zsession, zres, hCreated, hZipUnlinkTried,
    \* independently arriving /convert requests: the wall clock Date.now()
    \* reads, each request's x-session-id header and the sessionId it resolved
    clock, bHeader, bSession

reqVars == <<files, header, now>>
convVars == <<pc, sessionId, idx, fileSizes, downloadUrls, res>>
optVars == <<originalSize, quality, attempts, convertedSize>>
fsVars == <<dirs, uploads, zips>>
histVars == <<hInvoked, hThrown, hUnlinkTried, hUnlinkOk, hEncodes>>
zipVars == <<zpc, zsession, zres, hCreated, hZipUnlinkTried>>
arrVars == <<clock, bHeader, bSession>>
vars == <<reqVars, convVars, optVars, fsVars, histVars, zipVars, arrVars>>

(***************************************************************************)
(* File system values.                                                     *)
(***************************************************************************)
AbsentDir == [kind |-> "absent", files |-> {}]
EmptyDir == [kind |-> "dir", files |-> {}]
\* the path public/<session> is taken by a regular file
BlockedDir == [kind |-> "file", files |-> {}]

Exists(d, name) == d.kind = "dir" /\ \E f \in d.files : f.name = name
SizeOf(d, name) == (CHOOSE f \in d.files : f.name = name).size
\* toFile(outputPath): create or overwrite; the file holds an encoding of
\* input file `by`, of `size` bytes
WriteFile(d, name, size, by) ==
    [d EXCEPT !.files = {f \in d.files : f.name # name}
                            \cup {[name |-> name, size |-> size, by |-> by]}]
\* unlink(outputPath)
RemoveFile(d, name) == [d EXCEPT !.files = {f \in d.files : f.name # name}]

\* a transient archive file: whether it exists, and the requests whose
\* streams wrote into it
NoZip == [exists |-> FALSE, writers |-> {}]

(***************************************************************************)
(* Responses and fileSizes entries.                                        *)
(***************************************************************************)
NoResponse ==
    [status |-> 0, error |-> <<>>, downloadUrls |-> <<>>,
     zipDownloadUrl |-> EmptyUrl, fileSizes |-> <<>>]
ErrorResponse(status, text) == [NoResponse EXCEPT !.status = status, !.error = text]

ConvertedEntry(f, osz, csz) ==
    [originalName |-> f.originalname, originalSize |-> osz, convertedSize |-> csz,
     skipped |-> FALSE, error |-> FALSE, errorDetail |-> ""]
SkippedEntry(f, osz) ==
    [originalName |-> f.originalname, originalSize |-> osz, convertedSize |-> osz,
     skipped |-> TRUE, error |-> FALSE, errorDetail |-> ""]
FailedEntry(f, msg) ==
    [originalName |-> f.originalname, originalSize |-> f.size, convertedSize |-> f.size,
     skipped |-> FALSE, error |-> TRUE, errorDetail |-> msg]

\* Mutation of ZipDownloadUrl: the test forgets the skipped flag.
ZipDownloadUrl_IgnoresSkipped(fs, sid) ==
    IF Len(fs) # 0 /\ ~(\A i \in 1..Len(fs) : fs[i].error)
    THEN ZipUrl(sid) ELSE EmptyUrl

\* fileSizes.length && !fileSizes.every(f => f.error || f.skipped)
ZipDownloadUrl(fs, sid) ==
    IF Len(fs) # 0 /\ ~(\A i \in 1..Len(fs) : fs[i].error \/ fs[i].skipped)
    THEN ZipUrl(sid) ELSE EmptyUrl

BatchResponse(urls, fs, sid) ==
    [status |-> 200, error |-> <<>>, downloadUrls |-> urls,
     zipDownloadUrl |-> ZipDownloadUrl(fs, sid), fileSizes |-> fs]

TooSmallMsg == "Converted file size too small"
EncodeErrorMsg == "EncodeError"
FsFaults == {"EIO"}
MkdirFaults == {"EACCES"}

file == files[idx]
outputFilename == OutputFilename(file.originalname)
outputDir == dirs[sessionId]
isWebP == file.mimetype = "image/webp"

(***************************************************************************)
(* Initial states.                                                         *)
(***************************************************************************)
InitRequest ==
    /\ files \in Batches
    /\ header \in HeaderIds \cup {NoHeader}
    /\ now \in Times

InitConvert ==
    /\ pc = "idle"
    /\ sessionId = NoHeader
    /\ idx = 0
    /\ fileSizes = <<>>
    /\ downloadUrls = <<>>
    /\ res = NoResponse
    /\ originalSize = 0
    /\ quality = 0
    /\ attempts = 0
    /\ convertedSize = 0
    /\ uploads = 1..Len(files)
    /\ hInvoked = {}
    /\ hThrown = {}
    /\ hUnlinkTried = [i \in 1..Len(files) |-> 0]
    /\ hUnlinkOk = [i \in 1..Len(files) |-> 0]
    /\ hEncodes = <<>>

InitZip ==
    /\ zpc = [r \in 1..MaxArchive |-> "idle"]
    /\ zsession = [r \in 1..MaxArchive |-> NoHeader]
    /\ zres = [r \in 1..MaxArchive |-> NoResponse]
    /\ hCreated = {}
    /\ hZipUnlinkTried = {}
    /\ zips = [p \in ZipPaths |-> NoZip]

\* no further /convert request has arrived
InitArrivals ==
    /\ clock = 1
    /\ bHeader = [k \in 1..MaxBatch |-> NoHeader]
    /\ bSession = [k \in 1..MaxBatch |-> NoHeader]

\* The session directory of the request is absent, an empty directory left
\* by an earlier request, or its path is taken by a regular file.
Init ==
    /\ InitRequest
    /\ InitConvert
    /\ InitZip
    /\ InitArrivals
    /\ \E d \in {AbsentDir, EmptyDir, BlockedDir} :
         dirs = [s \in SessionIds |->
                    IF s = ResolveSession(header, now) THEN d ELSE AbsentDir]

(***************************************************************************)
(* /convert: control transfers shared by the steps of the per-file loop.   *)
(***************************************************************************)
\* lines 200-209: the per-file catch records a Failed outcome, then calls
\* unlink(file.path)
Throw(msg) ==
    /\ fileSizes' = Append(fileSizes, FailedEntry(file, msg))
    /\ downloadUrls' = Append(downloadUrls, EmptyUrl)
    /\ hThrown' = hThrown \cup {<<idx, msg>>}
    /\ pc' = "cleanup"
    /\ hEncodes' = <<>>
    /\ originalSize' = 0
    /\ quality' = 0
    /\ attempts' = 0
    /\ convertedSize' = 0

\* optimizeWebP goes on to its next await
Continue(to, q, a, cs) ==
    /\ pc' = to
    /\ quality' = q
    /\ attempts' = a
    /\ convertedSize' = cs
    /\ UNCHANGED <<originalSize, fileSizes, downloadUrls, hThrown, hEncodes>>

\* Mutation of Return: the keep/skip test compares with > instead of >=.
Return_StrictCompare(cs) ==
    IF cs > originalSize
    THEN Continue("unlinkSkip", 0, 0, cs)
    ELSE /\ fileSizes' = Append(fileSizes, ConvertedEntry(file, originalSize, cs))
         /\ downloadUrls' = Append(downloadUrls, DownloadUrl(sessionId, outputFilename))
         /\ pc' = "unlinkUpload"
         /\ originalSize' = 0
         /\ quality' = 0
         /\ attempts' = 0
         /\ convertedSize' = 0
         /\ hEncodes' = <<>>
         /\ UNCHANGED hThrown

\* line 159 and lines 189-197: optimizeWebP returns cs; the caller keeps or
\* skips
Return(cs) ==
    IF cs >= originalSize
    THEN Continue("unlinkSkip", 0, 0, cs)
    ELSE /\ fileSizes' = Append(fileSizes, ConvertedEntry(file, originalSize, cs))
         /\ downloadUrls' = Append(downloadUrls, DownloadUrl(sessionId, outputFilename))
         /\ pc' = "unlinkUpload"
         /\ originalSize' = 0
         /\ quality' = 0
         /\ attempts' = 0
         /\ convertedSize' = 0
         /\ hEncodes' = <<>>
         /\ UNCHANGED hThrown

\* Mutation of AfterSearch: the loop's last size is returned without a fallback.
AfterSearch_NoFallback(cs) ==
    Return(cs)

\* lines 142-159: after the do-while
AfterSearch(cs) ==
    IF cs >= originalSize
    THEN Continue("fallback", quality, attempts, cs)
    ELSE Return(cs)

\* lines 130-140: the decision after an attempt measured cs
Decide(cs) ==
    IF cs >= originalSize /\ quality > QualityFloor /\ attempts < maxAttempts
    THEN Continue("unlinkRetry", quality, attempts, cs)
    ELSE IF cs < MinViableSize
         THEN Throw(TooSmallMsg)
         ELSE AfterSearch(cs)

\* line 178 / lines 214-217: the next file, or the batch response
NextFile ==
    IF idx < Len(files)
    THEN /\ idx' = idx + 1
         /\ pc' = "stat"
         /\ UNCHANGED res
    ELSE /\ idx' = idx
         /\ pc' = "done"
         /\ res' = BatchResponse(downloadUrls, fileSizes, sessionId)

\* one call of unlink(file.path) on the temporary upload
UnlinkUploadCall(ok) ==
    /\ hUnlinkTried' = [hUnlinkTried EXCEPT ![idx] = @ + 1]
    /\ hUnlinkOk' = IF ok THEN [hUnlinkOk EXCEPT ![idx] = @ + 1] ELSE hUnlinkOk
    /\ uploads' = IF ok THEN uploads \ {idx} ELSE uploads

(***************************************************************************)
(* /convert: the steps of the handler.                                     *)
(***************************************************************************)
\* lines 164-173, up to the call of ensureDir
Convert ==
    /\ pc = "idle"
    /\ IF Len(files) = 0
       THEN /\ res' = ErrorResponse(400, <<"No files uploaded">>)
            /\ pc' = "done"
            /\ UNCHANGED sessionId
       ELSE /\ sessionId' = ResolveSession(header, now)
            /\ pc' = "ensureDir"
            /\ UNCHANGED res
    /\ UNCHANGED <<reqVars, idx, fileSizes, downloadUrls, optVars, fsVars, histVars, zipVars>>
    /\ UNCHANGED arrVars

\* lines 31-38 and 173-178: mkdir(dir, {recursive: true}); EEXIST is swallowed,
\* any other error reaches the outer catch (lines 218-221)
EnsureDir ==
    /\ pc = "ensureDir"
    /\ \/ /\ outputDir.kind # "file"
          /\ dirs' = [dirs EXCEPT ![sessionId] =
                         IF @.kind = "absent" THEN EmptyDir ELSE @]
          /\ idx' = 1
          /\ pc' = "stat"
          /\ UNCHANGED res
       \/ /\ outputDir.kind = "file"
          /\ idx' = 1
          /\ pc' = "stat"
          /\ UNCHANGED <<dirs, res>>
       \/ \E e \in MkdirFaults :
            /\ res' = ErrorResponse(500, <<"Server error: ", e>>)
            /\ pc' = "done"
            /\ UNCHANGED <<dirs, idx>>
    /\ UNCHANGED <<reqVars, sessionId, fileSizes, downloadUrls, optVars, uploads, zips,
                   histVars, zipVars>>
    /\ UNCHANGED arrVars

\* Mutation of StatInput: the initial quality ignores isWebP.
StatInput_IgnoresFormat ==
    /\ pc = "stat"
    /\ \/ /\ idx \in uploads
          /\ originalSize' = file.size
          /\ hInvoked' = hInvoked \cup {idx}
          /\ hEncodes' = <<>>
          /\ quality' = QualityOther
          /\ attempts' = 0
          /\ convertedSize' = 0
          /\ pc' = "encode"
          /\ UNCHANGED <<fileSizes, downloadUrls, hThrown>>
       \/ /\ \E e \in (IF idx \in uploads THEN FsFaults ELSE {"ENOENT"}) : Throw(e)
          /\ UNCHANGED hInvoked
    /\ UNCHANGED <<reqVars, sessionId, idx, res, fsVars, hUnlinkTried, hUnlinkOk, zipVars>>
    /\ UNCHANGED arrVars

\* lines 184-187 and 109-111: stat(file.path), then optimizeWebP is entered
StatInput ==
    /\ pc = "stat"
    /\ \/ /\ idx \in uploads
          /\ originalSize' = file.size
          /\ hInvoked' = hInvoked \cup {idx}
          /\ hEncodes' = <<>>
          /\ quality' = IF isWebP THEN QualityWebP ELSE QualityOther
          /\ attempts' = 0
          /\ convertedSize' = 0
          /\ pc' = "encode"
          /\ UNCHANGED <<fileSizes, downloadUrls, hThrown>>
       \/ /\ \E e \in (IF idx \in uploads THEN FsFaults ELSE {"ENOENT"}) : Throw(e)
          /\ UNCHANGED hInvoked
    /\ UNCHANGED <<reqVars, sessionId, idx, res, fsVars, hUnlinkTried, hUnlinkOk, zipVars>>
    /\ UNCHANGED arrVars

\* lines 116-124: sharp(inputPath).webp({quality}).toFile(outputPath)
Encode ==
    /\ pc = "encode"
    /\ \/ /\ idx \in uploads
          /\ outputDir.kind = "dir"
          /\ \E s \in EncSizes :
               dirs' = [dirs EXCEPT ![sessionId] = WriteFile(@, outputFilename, s, idx)]
          /\ hEncodes' = Append(hEncodes, quality)
          /\ pc' = "statOut"
          /\ UNCHANGED <<optVars, fileSizes, downloadUrls, hThrown>>
       \/ /\ Throw(EncodeErrorMsg)
          /\ UNCHANGED dirs
    /\ UNCHANGED <<reqVars, sessionId, idx, res, uploads, zips, hInvoked, hUnlinkTried,
                   hUnlinkOk, zipVars>>
    /\ UNCHANGED arrVars

\* lines 126-140: stat(outputPath), then the retry / too-small / break decision
StatOutput ==
    /\ pc = "statOut"
    /\ \/ /\ Exists(outputDir, outputFilename)
          /\ Decide(SizeOf(outputDir, outputFilename))
       \/ \E e \in (IF Exists(outputDir, outputFilename) THEN FsFaults ELSE {"ENOENT"}) :
            Throw(e)
    /\ UNCHANGED <<reqVars, sessionId, idx, res, fsVars, hInvoked, hUnlinkTried,
                   hUnlinkOk, zipVars>>
    /\ UNCHANGED arrVars

\* Mutation of UnlinkRetry: the loop test is attempts <= maxAttempts.
UnlinkRetry_OneMoreAttempt ==
    /\ pc = "unlinkRetry"
    /\ \/ /\ Exists(outputDir, outputFilename)
          /\ dirs' = [dirs EXCEPT ![sessionId] = RemoveFile(@, outputFilename)]
          /\ IF attempts + 1 <= maxAttempts
             THEN Continue("encode", quality - QualityStep, attempts + 1, convertedSize)
             ELSE IF convertedSize >= originalSize
                  THEN Continue("fallback", quality - QualityStep, attempts + 1,
                                convertedSize)
                  ELSE Return(convertedSize)
       \/ /\ \E e \in (IF Exists(outputDir, outputFilename) THEN FsFaults ELSE {"ENOENT"}) :
               Throw(e)
          /\ UNCHANGED dirs
    /\ UNCHANGED <<reqVars, sessionId, idx, res, uploads, zips, hInvoked, hUnlinkTried,
                   hUnlinkOk, zipVars>>
    /\ UNCHANGED arrVars

\* lines 131-134, 140, 143: unlink(outputPath), step the quality down, loop
UnlinkRetry ==
    /\ pc = "unlinkRetry"
    /\ \/ /\ Exists(outputDir, outputFilename)
          /\ dirs' = [dirs EXCEPT ![sessionId] = RemoveFile(@, outputFilename)]
          /\ IF attempts + 1 < maxAttempts
             THEN Continue("encode", quality - QualityStep, attempts + 1, convertedSize)
             ELSE IF convertedSize >= originalSize
                  THEN Continue("fallback", quality - QualityStep, attempts + 1,
                                convertedSize)
                  ELSE Return(convertedSize)
       \/ /\ \E e \in (IF Exists(outputDir, outputFilename) THEN FsFaults ELSE {"ENOENT"}) :
               Throw(e)
          /\ UNCHANGED dirs
    /\ UNCHANGED <<reqVars, sessionId, idx, res, uploads, zips, hInvoked, hUnlinkTried,
                   hUnlinkOk, zipVars>>
    /\ UNCHANGED arrVars

\* lines 145-153: the fallback encode at quality 20
FallbackEncode ==
    /\ pc = "fallback"
    /\ \/ /\ idx \in uploads
          /\ outputDir.kind = "dir"
          /\ \E s \in EncSizes :
               dirs' = [dirs EXCEPT ![sessionId] = WriteFile(@, outputFilename, s, idx)]
          /\ hEncodes' = Append(hEncodes, QualityFallback)
          /\ pc' = "statFallback"
          /\ UNCHANGED <<optVars, fileSizes, downloadUrls, hThrown>>
       \/ /\ Throw(EncodeErrorMsg)
          /\ UNCHANGED dirs
    /\ UNCHANGED <<reqVars, sessionId, idx, res, uploads, zips, hInvoked, hUnlinkTried,
                   hUnlinkOk, zipVars>>
    /\ UNCHANGED arrVars

\* lines 155-159: stat(outputPath) after the fallback, and the return
StatFallback ==
    /\ pc = "statFallback"
    /\ \/ /\ Exists(outputDir, outputFilename)
          /\ Return(SizeOf(outputDir, outputFilename))
       \/ \E e \in (IF Exists(outputDir, outputFilename) THEN FsFaults ELSE {"ENOENT"}) :
            Throw(e)
    /\ UNCHANGED <<reqVars, sessionId, idx, res, fsVars, hInvoked, hUnlinkTried,
                   hUnlinkOk, zipVars>>
    /\ UNCHANGED arrVars

\* lines 191-193: unlink(outputPath) of a skipped file, then the Skipped outcome
UnlinkSkipped ==
    /\ pc = "unlinkSkip"
    /\ \/ /\ Exists(outputDir, outputFilename)
          /\ dirs' = [dirs EXCEPT ![sessionId] = RemoveFile(@, outputFilename)]
          /\ fileSizes' = Append(fileSizes, SkippedEntry(file, originalSize))
          /\ downloadUrls' = Append(downloadUrls, EmptyUrl)
          /\ pc' = "unlinkUpload"
          /\ originalSize' = 0
          /\ quality' = 0
          /\ attempts' = 0
          /\ convertedSize' = 0
          /\ hEncodes' = <<>>
          /\ UNCHANGED hThrown
       \/ /\ \E e \in (IF Exists(outputDir, outputFilename) THEN FsFaults ELSE {"ENOENT"}) :
               Throw(e)
          /\ UNCHANGED dirs
    /\ UNCHANGED <<reqVars, sessionId, idx, res, uploads, zips, hInvoked, hUnlinkTried,
                   hUnlinkOk, zipVars>>
    /\ UNCHANGED arrVars

\* line 199: unlink(file.path) inside the try; its failure reaches the catch
UnlinkUpload ==
    /\ pc = "unlinkUpload"
    /\ \/ /\ idx \in uploads
          /\ UnlinkUploadCall(TRUE)
          /\ NextFile
          /\ UNCHANGED <<fileSizes, downloadUrls, hThrown, hEncodes, optVars>>
       \/ /\ UnlinkUploadCall(FALSE)
          /\ \E e \in (IF idx \in uploads THEN FsFaults ELSE {"ENOENT"}) : Throw(e)
          /\ UNCHANGED <<idx, res>>
    /\ UNCHANGED <<reqVars, sessionId, dirs, zips, hInvoked, zipVars>>
    /\ UNCHANGED arrVars

\* Mutation of CatchCleanup: the unlink in the catch has no .catch of its own,
\* so its failure reaches the outer catch (lines 218-221).
CatchCleanup_Propagates ==
    /\ pc = "cleanup"
    /\ \/ /\ idx \in uploads
          /\ UnlinkUploadCall(TRUE)
          /\ NextFile
       \/ /\ UnlinkUploadCall(FALSE)
          /\ res' = ErrorResponse(500, <<"Server error: ", "EIO">>)
          /\ pc' = "done"
          /\ UNCHANGED idx
    /\ UNCHANGED <<reqVars, sessionId, fileSizes, downloadUrls, optVars, dirs, zips,
                   hInvoked, hEncodes, hThrown, zipVars>>
    /\ UNCHANGED arrVars

\* line 210: unlink(file.path).catch(log) at the end of the catch
CatchCleanup ==
    /\ pc = "cleanup"
    /\ \/ /\ idx \in uploads
          /\ UnlinkUploadCall(TRUE)
       \/ UnlinkUploadCall(FALSE)
    /\ NextFile
    /\ UNCHANGED <<reqVars, sessionId, fileSizes, downloadUrls, optVars, dirs, zips,
                   hInvoked, hEncodes, hThrown, zipVars>>
    /\ UNCHANGED arrVars

NextConvert ==
    \/ Convert
    \/ EnsureDir
    \/ StatInput
    \/ Encode
    \/ StatOutput
    \/ UnlinkRetry
    \/ FallbackEncode
    \/ StatFallback
    \/ UnlinkSkipped
    \/ UnlinkUpload
    \/ CatchCleanup

Next == NextConvert

Spec == Init /\ [][Next]_vars

(***************************************************************************)
(* /download-zip/:session: the steps of the handler, for request r.        *)
(***************************************************************************)
Requests == 1..MaxArchive
zipPath(r) == ZipPath(zsession[r])
\* the request holds an open or finished transient archive file
Transient(r) == zpc[r] \in {"zipping", "download", "unlinkZip"}

ZipFail(r, status, text) ==
    /\ zres' = [zres EXCEPT ![r] = ErrorResponse(status, text)]
    /\ zpc' = [zpc EXCEPT ![r] = "done"]

\* lines 62-68, up to the call of readdir
ZipRequest(r) ==
    /\ zpc[r] = "idle"
    /\ \E s \in SessionIds : zsession' = [zsession EXCEPT ![r] = s]
    /\ zpc' = [zpc EXCEPT ![r] = "readdir"]
    /\ UNCHANGED <<reqVars, convVars, optVars, fsVars, histVars, zres, hCreated,
                   hZipUnlinkTried>>
    /\ UNCHANGED arrVars

\* lines 68-92 and 101-104: readdir(sessionDir); an empty listing ends in 404,
\* a readdir error in the catch; otherwise createWriteStream(zipPath) and the
\* archiver are started
ZipReadDir(r) ==
    /\ zpc[r] = "readdir"
    /\ LET d == dirs[zsession[r]] IN
       \/ /\ d.kind = "dir"
          /\ d.files = {}
          /\ ZipFail(r, 404, <<"No files available to zip">>)
          /\ UNCHANGED <<zips, hCreated>>
       \/ /\ d.kind = "dir"
          /\ d.files # {}
          /\ zips' = [zips EXCEPT ![zipPath(r)] =
                         [exists |-> TRUE,
                          writers |-> {r} \cup {q \in Requests :
                                          zpc[q] = "zipping" /\ zipPath(q) = zipPath(r)}]]
          /\ hCreated' = hCreated \cup {r}
          /\ zpc' = [zpc EXCEPT ![r] = "zipping"]
          /\ UNCHANGED zres
       \/ /\ d.kind # "dir"
          /\ ZipFail(r, 500, <<"Failed to create ZIP: ",
                                IF d.kind = "absent" THEN "ENOENT" ELSE "ENOTDIR">>)
          /\ UNCHANGED <<zips, hCreated>>
    /\ UNCHANGED <<reqVars, convVars, optVars, dirs, uploads, histVars, zsession,
                   hZipUnlinkTried>>
    /\ UNCHANGED arrVars

\* lines 77-94 and 101-104: the output stream closes and res.download is
\* called, or the archiver emits 'error' and the catch answers
ZipFinish(r) ==
    /\ zpc[r] = "zipping"
    /\ \/ /\ zpc' = [zpc EXCEPT ![r] = "download"]
          /\ UNCHANGED zres
       \/ ZipFail(r, 500, <<"Failed to create ZIP: ", "ArchiverError">>)
    /\ UNCHANGED <<reqVars, convVars, optVars, fsVars, histVars, zsession, hCreated,
                   hZipUnlinkTried>>
    /\ UNCHANGED arrVars

\* lines 94-100: the callback of res.download; unlink(zipPath) is called on
\* both outcomes
ZipDownload(r) ==
    /\ zpc[r] = "download"
    /\ \/ /\ zips[zipPath(r)].exists
          /\ zres' = [zres EXCEPT ![r] = [NoResponse EXCEPT !.status = 200]]
       \/ zres' = [zres EXCEPT ![r] = ErrorResponse(500, <<"Failed to download ZIP">>)]
    /\ hZipUnlinkTried' = hZipUnlinkTried \cup {r}
    /\ zpc' = [zpc EXCEPT ![r] = "unlinkZip"]
    /\ UNCHANGED <<reqVars, convVars, optVars, fsVars, histVars, zsession, hCreated>>
    /\ UNCHANGED arrVars

\* line 99: unlink(zipPath) completes; its failure is logged
ZipUnlink(r) ==
    /\ zpc[r] = "unlinkZip"
    /\ \/ /\ zips[zipPath(r)].exists
          /\ zips' = [zips EXCEPT ![zipPath(r)] = NoZip]
       \/ UNCHANGED zips
    /\ zpc' = [zpc EXCEPT ![r] = "done"]
    /\ UNCHANGED <<reqVars, convVars, optVars, dirs, uploads, histVars, zsession, zres,
                   hCreated, hZipUnlinkTried>>
    /\ UNCHANGED arrVars

NextZip ==
    \E r \in Requests :
        \/ ZipRequest(r)
        \/ ZipReadDir(r)
        \/ ZipFinish(r)
        \/ ZipDownload(r)
        \/ ZipUnlink(r)

\* A session directory as an archive request can find it: absent, empty, or
\* holding the kept output of an earlier batch.
KeptDir ==
    [kind |-> "dir",
     files |-> {[name |-> OutputFilename(NameAJpg), size |-> 600, by |-> 1]}]

\* No /convert request is in flight; the archive requests are about to arrive.
InitArchive ==
    /\ files = <<>>
    /\ header = NoHeader
    /\ now = 1
    /\ InitConvert
    /\ InitZip
    /\ InitArrivals
    /\ dirs \in [SessionIds -> {AbsentDir, EmptyDir, KeptDir}]

SpecArchive == InitArchive /\ [][NextZip]_vars

(***************************************************************************)
(* Vocabulary of the claims.                                               *)
(***************************************************************************)
\* the status a fileSizes entry reports (spec.md section 6: skipped?, error?)
Status(e) == IF e.error THEN "Failed" ELSE IF e.skipped THEN "Skipped" ELSE "Converted"
\* the /convert request has answered with the batch response
BatchAnswered == pc = "done" /\ res.status = 200
\* ensureDir returned without throwing: the per-file loop was entered
DirEnsured == idx >= 1
Outcomes == 1..Len(res.fileSizes)

(***************************************************************************)
(* C1: in every batch response fileSizes and downloadUrls hold exactly one *)
(* entry per input file, the i-th entry describing the i-th input file,    *)
(* whatever the encode results and file system faults were.                *)
(* Stated as the claim reads; the code violates it.                        *)
(***************************************************************************)
C1_OneEntryPerFile ==
    BatchAnswered =>
        /\ Len(res.fileSizes) = Len(files)
        /\ Len(res.downloadUrls) = Len(files)
        /\ \A i \in 1..Len(files) : res.fileSizes[i].originalName = files[i].originalname

(***************************************************************************)
(* C2: when the batch response is produced, every Converted outcome has    *)
(* convertedSize < originalSize and the file its download path names       *)
(* exists in the session directory, also when input files share a base     *)
(* name.  Stated as the claim reads; the code violates it.                 *)
(***************************************************************************)
C2_ConvertedKept ==
    BatchAnswered =>
        \A i \in Outcomes :
            Status(res.fileSizes[i]) = "Converted" =>
                /\ res.fileSizes[i].convertedSize < res.fileSizes[i].originalSize
                /\ i <= Len(res.downloadUrls)
                /\ Len(res.downloadUrls[i]) = 3
                /\ Exists(dirs[res.downloadUrls[i][2]], res.downloadUrls[i][3])

(***************************************************************************)
(* C3: right after a Failed outcome is recorded because the transcoder     *)
(* raised TooSmallOutput or an encode error, no file exists at that file's *)
(* output path and the outcome's errorDetail is populated.                 *)
(* Stated as the claim reads; the code violates it.                        *)
(***************************************************************************)
C3_FailedLeavesNoOutput ==
    (/\ pc = "cleanup"
     /\ fileSizes[Len(fileSizes)].errorDetail \in {TooSmallMsg, EncodeErrorMsg})
        => /\ ~Exists(outputDir, outputFilename)
           /\ fileSizes[Len(fileSizes)].errorDetail # ""

(***************************************************************************)
(* C4: once the session directory is ensured, a failure while processing a *)
(* file never aborts the batch: the request never answers with an error    *)
(* response, and when it has answered, every input file was handed to the  *)
(* transcoder unless its own size measurement threw, and every error       *)
(* thrown for a file is carried as errorDetail by a Failed outcome of that *)
(* file.                                                                   *)
(***************************************************************************)
C4_FailureNeverAborts ==
    DirEnsured =>
        /\ res.status \in {0, 200}
        /\ pc = "done" =>
             /\ res.status = 200
             /\ \A i \in 1..Len(files) :
                    i \in hInvoked \/ \E t \in hThrown : t[1] = i
             /\ \A t \in hThrown :
                    \E k \in Outcomes :
                        /\ Status(res.fileSizes[k]) = "Failed"
                        /\ res.fileSizes[k].errorDetail = t[2]
                        /\ res.fileSizes[k].originalName = files[t[1]].originalname

\* the first file failed in the transcoder, the second was still transcoded
\* and the batch response was sent
C4_Witness ==
    /\ BatchAnswered
    /\ Len(files) = 2
    /\ <<1, EncodeErrorMsg>> \in hThrown
    /\ 2 \in hInvoked
    /\ Status(res.fileSizes[2]) = "Converted"

(***************************************************************************)
(* C5: on every exit path of a batch request, deletion of every temporary  *)
(* upload has been attempted when the response is sent, no upload was      *)
(* deleted twice, and an upload remains only if its deletions failed.      *)
(* Stated as the claim reads; the code violates it.                        *)
(***************************************************************************)
C5_UploadsCleaned ==
    pc = "done" =>
        \A i \in 1..Len(files) :
            /\ hUnlinkTried[i] >= 1
            /\ hUnlinkOk[i] <= 1
            /\ i \in uploads => hUnlinkOk[i] = 0

(***************************************************************************)
(* C6: in every batch response zipDownloadUrl is /download-zip/{session}   *)
(* iff at least one outcome is Converted, and is the empty string iff      *)
(* every outcome is Skipped or Failed.                                     *)
(***************************************************************************)
C6_ZipUrlIffConverted ==
    BatchAnswered =>
        /\ res.zipDownloadUrl = ZipUrl(sessionId)
             <=> \E i \in Outcomes : Status(res.fileSizes[i]) = "Converted"
        /\ res.zipDownloadUrl = EmptyUrl
             <=> \A i \in Outcomes : Status(res.fileSizes[i]) \in {"Skipped", "Failed"}

\* a batch with one Converted and one Skipped outcome offers the archive
C6_Witness ==
    /\ BatchAnswered
    /\ res.zipDownloadUrl = ZipUrl(sessionId)
    /\ \E i, j \in Outcomes :
         /\ Status(res.fileSizes[i]) = "Converted"
         /\ Status(res.fileSizes[j]) = "Skipped"

(***************************************************************************)
(* C7: in every batch response, for each index i, downloadUrls[i] is       *)
(* non-empty exactly when outcome i is Converted, and then convertedSize < *)
(* originalSize; a Skipped outcome has convertedSize = originalSize and an *)
(* empty downloadUrls[i]; a Failed outcome has an empty downloadUrls[i].   *)
(***************************************************************************)
C7_UrlsMatchOutcomes ==
    BatchAnswered =>
        /\ Len(res.downloadUrls) = Len(res.fileSizes)
        /\ \A i \in Outcomes :
             LET e == res.fileSizes[i]
                 u == res.downloadUrls[i]
             IN /\ u # EmptyUrl <=> Status(e) = "Converted"
                /\ Status(e) = "Converted" =>
                     /\ e.convertedSize < e.originalSize
                     /\ u = DownloadUrl(sessionId, OutputFilename(e.originalName))
                /\ Status(e) = "Skipped" => e.convertedSize = e.originalSize /\ u = EmptyUrl
                /\ Status(e) = "Failed" => u = EmptyUrl

\* a batch response of two outcomes: a Converted one with its download path,
\* then a Failed one with none
C7_Witness ==
    /\ BatchAnswered
    /\ Len(res.fileSizes) = 2
    /\ Status(res.fileSizes[1]) = "Converted"
    /\ res.downloadUrls[1] = DownloadUrl(sessionId, OutputFilename(files[1].originalname))
    /\ Status(res.fileSizes[2]) = "Failed"
    /\ res.downloadUrls[2] = EmptyUrl

(***************************************************************************)
(* C8: an archive download for a session whose directory is empty or does  *)
(* not exist ends with a 404 (NoFilesAvailable) response, and no transient *)
(* archive file is created for it.                                         *)
(* Stated as the claim reads; the code violates it.                        *)
(***************************************************************************)
C8_EmptyOrAbsentIsNotFound ==
    \A r \in Requests :
        (/\ zpc[r] = "done"
         /\ dirs[zsession[r]].kind # "dir" \/ dirs[zsession[r]].files = {})
            => zres[r].status = 404 /\ r \notin hCreated

(***************************************************************************)
(* C9: every archive request that created its transient archive file has   *)
(* called the deletion of that file by the time it has answered, on        *)
(* successful delivery, on delivery failure and on failure during          *)
(* compression.  Stated as the claim reads; the code violates it.          *)
(***************************************************************************)
C9_TransientAlwaysDeleted ==
    \A r \in Requests :
        (zpc[r] = "done" /\ r \in hCreated) => r \in hZipUnlinkTried

(***************************************************************************)
(* C10: two archive requests that run concurrently, also for the same      *)
(* session, hold distinct transient output paths.                          *)
(* Stated as the claim reads; the code violates it.                        *)
(***************************************************************************)
C10_DistinctTransientPaths ==
    \A r1, r2 \in Requests :
        (r1 # r2 /\ Transient(r1) /\ Transient(r2)) => zipPath(r1) # zipPath(r2)

(***************************************************************************)
(* Independently arriving /convert requests: each reads its x-session-id   *)
(* header and, without one, Date.now() (line 171); the clock may or may    *)
(* not have advanced between two arrivals.                                 *)
(***************************************************************************)
Arrivals == 1..MaxBatch
\* path.join(__dirname, 'public', sessionId)
OutputDirOf(sid) == <<"public/", sid>>

\* a millisecond passes
Tick ==
    /\ clock < MaxClock
    /\ clock' = clock + 1
    /\ UNCHANGED <<reqVars, convVars, optVars, fsVars, histVars, zipVars, bHeader, bSession>>

\* line 171 for request k
ConvertArrive(k) ==
    /\ bSession[k] = NoHeader
    /\ bSession' = [bSession EXCEPT ![k] = ResolveSession(bHeader[k], clock)]
    /\ UNCHANGED <<reqVars, convVars, optVars, fsVars, histVars, zipVars, clock, bHeader>>

NextSessions ==
    \/ Tick
    \/ \E k \in Arrivals : ConvertArrive(k)

InitSessions ==
    /\ files = <<>>
    /\ header = NoHeader
    /\ now = 1
    /\ InitConvert
    /\ InitZip
    /\ dirs = [s \in SessionIds |-> AbsentDir]
    /\ clock = 1
    /\ bHeader \in [Arrivals -> HeaderIds \cup {NoHeader}]
    /\ bSession = [k \in Arrivals |-> NoHeader]

SpecSessions == InitSessions /\ [][NextSessions]_vars

(***************************************************************************)
(* C11: independent batch requests that supply no session identifier are   *)
(* always resolved to distinct session identifiers and distinct working    *)
(* directories.  Stated as the claim reads; the code violates it.          *)
(***************************************************************************)
C11_DistinctGeneratedSessions ==
    \A j, k \in Arrivals :
        (/\ j # k
         /\ bHeader[j] = NoHeader /\ bHeader[k] = NoHeader
         /\ bSession[j] # NoHeader /\ bSession[k] # NoHeader)
            => /\ bSession[j] # bSession[k]
               /\ OutputDirOf(bSession[j]) # OutputDirOf(bSession[k])

(***************************************************************************)
(* Vocabulary of the transcoder claims.  hEncodes lists the qualities of   *)
(* the encodes performed so far in the current call of optimizeWebP.       *)
(***************************************************************************)
InSearch == pc \in {"encode", "statOut", "unlinkRetry"}
InFallback == pc \in {"fallback", "statFallback"}
InTranscoder == InSearch \/ InFallback
\* the encodes one call can perform: maxAttempts in the loop and the fallback
MaxEncodes == maxAttempts + 1

(***************************************************************************)
(* C12: a call of the transcoder performs at most 4 encodes, at most 3 of  *)
(* them in the search loop and at most 1 as the fallback, whatever sizes   *)
(* the encoder produces.  Every step of the call moves to the next await,  *)
(* and an encode is only started while fewer than the allowed number have  *)
(* been made, so the call ends after a bounded number of steps.            *)
(***************************************************************************)
C12_AtMostFourEncodes ==
    /\ Len(hEncodes) <= MaxEncodes
    /\ pc = "encode" => Len(hEncodes) < maxAttempts
    /\ pc \in {"statOut", "unlinkRetry"} => Len(hEncodes) \in 1..maxAttempts
    /\ pc = "fallback" => Len(hEncodes) = maxAttempts
    /\ pc = "statFallback" => Len(hEncodes) = MaxEncodes
    /\ ~InTranscoder /\ pc # "unlinkSkip" => hEncodes = <<>>

\* a call that used all four encodes
C12_Witness ==
    /\ pc = "statFallback"
    /\ Len(hEncodes) = MaxEncodes

(***************************************************************************)
(* Vocabulary of the error-response claim.  err.message of every fault the *)
(* model lets escape the per-file handling.                                *)
(***************************************************************************)
FaultMessages == MkdirFaults \cup FsFaults \cup {"ENOENT", "ENOTDIR", "ArchiverError"}
\* the text of a response carries the message m
Carries(text, m) == \E i \in DOMAIN text : text[i] = m
\* lines 231-234: the body of the global error handler
GenericError == <<"Internal server error">>

(***************************************************************************)
(* C13: a fault that escapes the per-file handling and ends a request with *)
(* an error response yields the generic internal-error response, which     *)
(* does not contain the message of the underlying error.  Stated as the    *)
(* claim reads; the outer catch of /convert and the catch of               *)
(* /download-zip both interpolate err.message.                             *)
(***************************************************************************)
C13_EscapedFaultIsGeneric ==
    /\ (pc = "done" /\ res.status = 500) =>
          /\ res.error = GenericError
          /\ \A m \in FaultMessages : ~Carries(res.error, m)
    /\ \A r \in Requests :
          (zpc[r] = "done" /\ zres[r].status = 500) =>
              \A m \in FaultMessages : ~Carries(zres[r].error, m)

(***************************************************************************)
(* C14: in the search loop every attempt whose measured size is below 512  *)
(* bytes ends the call as Failed with the too-small message, for every     *)
(* original size; so the call never goes on (to the unlink of a retry or   *)
(* to the fallback) with a measured size below 512.  Stated as the claim   *)
(* reads; the code tests the retry condition first.                        *)
(***************************************************************************)
C14_TooSmallAlwaysFails ==
    pc \in {"unlinkRetry", "fallback"} => convertedSize >= MinViableSize

\* line 109: the quality of the first search attempt for the current file
InitialQuality == IF isWebP THEN QualityWebP ELSE QualityOther
\* lines 109 and 132: the quality of the i-th search attempt
SearchQuality(i) == InitialQuality - QualityStep * (i - 1)

(***************************************************************************)
(* C15: within one call the search attempts are encoded at q0, q0-20,      *)
(* q0-40 in that order, q0 being 50 for a WebP source and 70 otherwise; a  *)
(* further attempt starts only after an attempt that was not smaller than  *)
(* the original, made at a quality above 10 with fewer than 3 retries      *)
(* used; the output discarded by that retry is deleted before the next     *)
(* encode starts; no encode runs at a quality below 10.                    *)
(***************************************************************************)
C15_SearchQualities ==
    LET n == Len(hEncodes) IN
    (pc = "encode" \/ n >= 1) =>
        /\ \A i \in 1..n : i <= maxAttempts => hEncodes[i] = SearchQuality(i)
        /\ \A i \in 1..n : hEncodes[i] >= QualityFloor
        /\ pc = "encode" =>
              /\ attempts = n
              /\ quality = SearchQuality(n + 1)
              /\ quality >= QualityFloor
        /\ (pc = "encode" /\ n >= 1) =>
              /\ convertedSize >= originalSize
              /\ hEncodes[n] > QualityFloor
              /\ attempts - 1 < maxAttempts
              /\ ~Exists(outputDir, outputFilename)
        /\ (pc = "fallback" /\ attempts = maxAttempts) =>
              ~Exists(outputDir, outputFilename)

\* a WebP source about to get its third search attempt, at quality 10, the
\* outputs of the attempts at 50 and 30 having been deleted
C15_Witness ==
    /\ pc = "encode"
    /\ isWebP
    /\ hEncodes = <<QualityWebP, QualityWebP - QualityStep>>
    /\ quality = QualityFloor
    /\ ~Exists(outputDir, outputFilename)

\* the outcome pushed last (lines 192, 195, 202)
LastOutcome(fs) == fs[Len(fs)]
\* a step of the per-file body that did not throw
NoThrow == pc' # "cleanup"

(***************************************************************************)
(* C16: the fallback encode at quality 20 happens exactly when three       *)
(* search attempts were made and none was smaller than the original (and   *)
(* none failed); it happens at most once, after the third attempt, and the *)
(* size it produces goes to the caller unchanged, so a file whose four     *)
(* encodes are all not smaller than the original ends Skipped and is not   *)
(* failed as too small.                                                    *)
(***************************************************************************)
C16_FallbackAfterThree ==
    [][
       \* only after three loop encodes, the last one not smaller
       /\ pc' = "fallback" =>
              /\ pc \in {"statOut", "unlinkRetry"}
              /\ Len(hEncodes') = maxAttempts
              /\ convertedSize' >= originalSize'
       \* always when the third loop encode is not smaller and nothing throws
       /\ (pc = "statOut" /\ Len(hEncodes) = maxAttempts /\ NoThrow
             /\ SizeOf(outputDir, outputFilename) >= originalSize) =>
              pc' \in {"unlinkRetry", "fallback"}
       /\ (pc = "unlinkRetry" /\ Len(hEncodes) = maxAttempts /\ NoThrow) =>
              pc' = "fallback"
       \* and not earlier
       /\ (pc \in {"statOut", "unlinkRetry"} /\ Len(hEncodes) < maxAttempts) =>
              pc' # "fallback"
       \* once, as the fourth encode, at quality 20
       /\ (pc = "fallback" /\ NoThrow) =>
              /\ pc' = "statFallback"
              /\ hEncodes' = Append(hEncodes, QualityFallback)
              /\ Len(hEncodes') = MaxEncodes
       /\ pc = "statFallback" => pc' \notin {"fallback", "encode"}
       \* its size is what the caller receives, with no too-small check
       /\ (pc = "statFallback" /\ NoThrow) =>
              LET cs == SizeOf(outputDir, outputFilename) IN
              IF cs >= originalSize
              THEN pc' = "unlinkSkip" /\ convertedSize' = cs
              ELSE /\ pc' = "unlinkUpload"
                   /\ Status(LastOutcome(fileSizes')) = "Converted"
                   /\ LastOutcome(fileSizes').convertedSize = cs
       /\ (pc = "statFallback" /\ ~NoThrow) =>
              LastOutcome(fileSizes').errorDetail # TooSmallMsg
       \* four encodes none smaller: Skipped
       /\ (pc = "unlinkSkip" /\ NoThrow) =>
              /\ Len(hEncodes) = MaxEncodes
              /\ Status(LastOutcome(fileSizes')) = "Skipped"
    ]_vars

\* a WebP source whose encodes at 50, 30, 10 and 20 were all not smaller
C16_Witness ==
    /\ pc = "unlinkSkip"
    /\ isWebP
    /\ hEncodes = <<QualityWebP, QualityWebP - QualityStep, QualityFloor, QualityFallback>>
    /\ convertedSize >= originalSize

(***************************************************************************)
(* C17: whenever the batch response carries a non-empty zipDownloadUrl,    *)
(* the session directory holds at least one file at that moment, so an     *)
(* archive request made next for the session is not answered NotFound;     *)
(* this for every batch, also one whose files share a base name.  Stated   *)
(* as the claim reads; a skipped file deletes the kept output of an        *)
(* earlier file with the same base name.                                   *)
(***************************************************************************)
C17_ZipUrlMeansFiles ==
    (BatchAnswered /\ res.zipDownloadUrl # EmptyUrl) =>
        /\ outputDir.kind = "dir"
        /\ outputDir.files # {}

(***************************************************************************)
(* C18: no outcome is reported as Converted with a convertedSize below the *)
(* minimum viable size of 512 bytes, the size of the fallback encode       *)
(* included.  Stated as the claim reads; the code has no size check after  *)
(* the fallback encode.                                                    *)
(***************************************************************************)
C18_ConvertedNeverTooSmall ==
    BatchAnswered =>
        \A i \in Outcomes :
            Status(res.fileSizes[i]) = "Converted" =>
                res.fileSizes[i].convertedSize >= MinViableSize

(***************************************************************************)
(* A /convert request and archive requests served by the same process:     *)
(* the handlers interleave at their awaits.                                *)
(***************************************************************************)
\* a batch of at most one file is about to be posted for session s1 while
\* the archive requests are about to arrive
InitSystem ==
    /\ files \in {b \in Batches : Len(b) <= 1}
    /\ header \in HeaderIds
    /\ now = 1
    /\ InitConvert
    /\ InitZip
    /\ InitArrivals
    /\ dirs = [s \in SessionIds |-> AbsentDir]

NextSystem ==
    \/ NextConvert
    \/ NextZip

SpecSystem == InitSystem /\ [][NextSystem]_vars

\* f, found in the directory of session s, is the kept output of a Converted
\* outcome of the batch
KeptOutput(s, f) ==
    /\ s = sessionId
    /\ \E i \in 1..Len(fileSizes) :
         /\ Status(fileSizes[i]) = "Converted"
         /\ downloadUrls[i] = DownloadUrl(sessionId, f.name)
         /\ fileSizes[i].convertedSize = f.size

(***************************************************************************)
(* C19: every file an archive request reads from a session directory is    *)
(* the kept output of a Converted outcome, never an intermediate search    *)
(* attempt nor the output of a file that ends Skipped or Failed, also      *)
(* while a batch for the same session is in progress.  Stated as the claim *)
(* reads, for the files in the directory when the archiver is started on   *)
(* it; the code archives whatever the directory holds.                     *)
(***************************************************************************)
C19_ArchiveReadsKeptOnly ==
    [][\A r \in Requests :
          (zpc[r] = "readdir" /\ zpc'[r] = "zipping") =>
              \A f \in dirs[zsession[r]].files : KeptOutput(zsession[r], f)]_vars

====
